---- MODULE Spec2Model ----
(***************************************************************************)
(* Soft-kill interception of drx (src/ext/drx/drx.c): the callback list,   *)
(* the job-handle table, the per-context patch record and the pre/post     *)
(* system-call handlers, for the WINDOWS and the UNIX build.               *)
(***************************************************************************)
EXTENDS Integers, Sequences, FiniteSets, TLC

\* ------------------------------------------------------------------ bounds
MaxCbs == 2          \* registrations per run
MaxInit == 1         \* calls of drx_init per run

\* ------------------------------------------------------- program constants
JOB_OBJECT_LIMIT_KILL_ON_JOB_CLOSE == 8192      \* 0x2000 (winnt.h)
LimitFlagsOffset == 16      \* offsetof(JOBOBJECT_EXTENDED_LIMIT_INFORMATION,
                            \*          BasicLimitInformation.LimitFlags)
SizeofInfo == 144           \* sizeof(JOBOBJECT_EXTENDED_LIMIT_INFORMATION)
INVALID_PROCESS_ID == -1
NT_CURRENT_PROCESS == -1
SIGKILL == 9
NULL == 0

\* --------------------------------------------------------------- universes
OwnPid == 2                                \* dr_get_process_id()
Pids == {1, 2, 3}                          \* process ids of the system
ProcHandles == {NT_CURRENT_PROCESS, 11, 12, 13, 19}  \* 10 + pid; 19 names no process
JobHandles == {21, 22}                     \* handles the application passes
ExitCodes == {0, 1}
Signals == {SIGKILL, 15}                   \* SIGKILL and SIGTERM
Buffers == {100, 200}                      \* caller-supplied info buffers
Locs == {b + LimitFlagsOffset : b \in Buffers}
FlagVals == {8, 8 + JOB_OBJECT_LIMIT_KILL_ON_JOB_CLOSE}  \* 8: another limit flag
InfoClasses == {"JobObjectBasicLimitInformation", "JobObjectExtendedLimitInformation"}
InfoSizes == {64, SizeofInfo}              \* the basic and the extended struct
Callbacks == {"never", "always", "spare1"} \* client callbacks, by behaviour
Platforms == {"WINDOWS", "UNIX"}
\* What NtQueryInformationJobObject may list for a job: the kernel's answer.
MemberLists == {<<>>, <<1, 3>>, <<1, 2, 3>>}
\* Which pids dr_convert_pid_to_handle can open: all, or all but process 3.
Convertible == {Pids, Pids \ {3}}
\* get_app_exit_code: whether the query succeeds, and the exit status it reads.
AppExitCodes == {<<FALSE, 0>>, <<TRUE, 0>>, <<TRUE, 1>>}
InitFailures == {"none", "sysnum", "cls", "pre", "post"}

\* A client callback bool (*cb)(process_id_t, int): "spare1" asks to skip the
\* kill of process 1 only.
CbReturn(cb, pid, exit_code) ==
    CASE cb = "never"  -> FALSE
      [] cb = "always" -> TRUE
      [] cb = "spare1" -> pid = 1

\* TEST(mask, var) for a one-bit mask, and var & ~mask.
TEST(mask, var) == (var \div mask) % 2 = 1
ClearFlag(mask, var) == IF TEST(mask, var) THEN var - mask ELSE var

\* ascending sequence of a finite set of integers
RECURSIVE SortedSeq(_)
SortedSeq(S) ==
    IF S = {} THEN <<>>
    ELSE LET m == CHOOSE x \in S : \A y \in S : x <= y
         IN <<m>> \o SortedSeq(S \ {m})

RECURSIVE Reverse(_)
Reverse(s) == IF s = <<>> THEN <<>> ELSE Reverse(Tail(s)) \o <<Head(s)>>

\* ------------------------------------------------------------------- state
VARIABLES
    platform,              \* the build: WINDOWS or UNIX
    debug,                 \* the build defines DEBUG
    running,               \* the instrumented process has not been terminated
    drx_init_count,        \* static int drx_init_count
    soft_kills_enabled,    \* static bool soft_kills_enabled
    soft_kills_init_count, \* static int soft_kills_init_count
    cb_lock,               \* "null", "created" or "destroyed"
    cb_list,               \* the callback list, head first
    registered,            \* history: the callbacks in the order they were registered
    events,                \* what soft_kills_init registered with drmgr and DR
    job_table,             \* keys of the hashtable job_table
    cls,                   \* cls_soft_t of the thread's context
    call,                  \* the watched system call the thread is in
    mem,                   \* LimitFlags of the caller's buffers
    requested,             \* history: the job handles whose last configuration that
                           \* took effect asked for kill-on-close, not closed since
    init_result,           \* history: "none", or how soft_kills_init returned
    obs,                   \* what the last handler did and returned
    pc,                    \* per thread: the statement it is at ("idle": in the application)
    frame,                 \* per thread: the locals of the function it is in
    cb_owner,              \* the thread that holds cb_lock, or 0
    table_owner,           \* the thread that holds the lock of job_table, or 0
    outer,                 \* the cls and call of the interrupted contexts, innermost first
    notified               \* history, per job handle: the calls of soft_kills_handle_close
                           \* that found processes, since the handle was last added

vars == <<platform, debug, running, drx_init_count, soft_kills_enabled, soft_kills_init_count,
          cb_lock, cb_list, registered, events, job_table, cls, call, mem,
          requested, init_result, obs, pc, frame, cb_owner, table_owner, outer,
          notified>>

\* what the single-threaded, one-context view of the library leaves alone
xvars == <<pc, frame, cb_owner, table_owner, outer, notified>>

ClsZero == [job_limit_flags_orig |-> 0, job_limit_flags_loc |-> NULL]

\* kind: the system call; stage: "idle", or "insys" from the pre-syscall event to the
\* post-syscall event; ptr: the buffer the kernel reads an extended limit struct
\* from (NULL if none); flags0: its LimitFlags when the call was made; patched: the
\* pre-syscall write succeeded and no one else has written the location since;
\* inner: a context that interrupted the call has patched a buffer of its own.
Idle == [kind |-> "none", stage |-> "idle", job |-> NULL, ptr |-> NULL, flags0 |-> 0,
         patched |-> FALSE, inner |-> FALSE]

NoObs == [op |-> "none", returned |-> TRUE, execute |-> TRUE,
          result_set |-> FALSE, result |-> 0,
          fanouts |-> <<>>, killed |-> <<>>,
          sys |-> "none", target |-> NULL, code |-> 0, sig |-> 0, ptr |-> NULL, flags0 |-> 0,
          members |-> <<>>, enum |-> FALSE, conv |-> {},
          wrote |-> FALSE, loc |-> NULL, clean |-> FALSE, seen |-> 0,
          table0 |-> {}, ret |-> TRUE, init |-> "none",
          teardown |-> FALSE, torn |-> FALSE, got |-> FALSE, app |-> 0,
          sweep |-> <<>>, inner |-> FALSE,
          class |-> "none", size |-> 0, readable |-> FALSE]

NumThreads == 2
Threads == 1..NumThreads

\* The locals of a thread inside the library.  cb: the callback being registered;
\* next: e->next; e: what is left of the list in soft_kills_invoke_cbs; seen: the
\* list as it was when the loop began; calls: the callbacks called so far; todo:
\* the pids still to notify; jobs: the table entries still to sweep; ret: where to
\* continue after the fan-outs.
NoFrame == [cb |-> "none", next |-> <<>>, e |-> <<>>, seen |-> <<>>, calls |-> <<>>,
            todo |-> <<>>, jobs |-> <<>>, ret |-> "idle"]

Init ==
    /\ platform \in Platforms
    /\ debug \in BOOLEAN
    /\ running = TRUE
    /\ drx_init_count = 0
    /\ soft_kills_enabled = FALSE
    /\ soft_kills_init_count = 0
    /\ cb_lock = "null"
    /\ cb_list = <<>>
    /\ registered = <<>>
    /\ events = {}
    /\ job_table = {}
    /\ cls = ClsZero
    /\ call = Idle
    /\ mem = [l \in Locs |-> 8]
    /\ requested = {}
    /\ init_result = "none"
    /\ obs = NoObs
    /\ pc = [t \in Threads |-> "idle"]
    /\ frame = [t \in Threads |-> NoFrame]
    /\ cb_owner = 0
    /\ table_owner = 0
    /\ outer = <<>>
    /\ notified = [h \in JobHandles |-> 0]

\* The pre- and post-syscall events reach this library: both are registered and the
\* filter event selects the watched system calls.
Hooked == {"pre", "post", "filter"} \subseteq events

\* ------------------------------------------------------- callback registry
\* One iteration of the loop of soft_kills_invoke_cbs:
\*     skip = e->cb(pid, exit_code) || skip;
CbStepShortCircuit(cb, pid, exit_code, acc) ==      \* skip = skip || e->cb(pid, exit_code)
    IF acc.skip THEN acc
    ELSE [calls |-> Append(acc.calls, cb), skip |-> CbReturn(cb, pid, exit_code)]

CbStepLastWins(cb, pid, exit_code, acc) ==          \* skip = e->cb(pid, exit_code)
    [calls |-> Append(acc.calls, cb), skip |-> CbReturn(cb, pid, exit_code)]

CbStep(cb, pid, exit_code, acc) ==
    [calls |-> Append(acc.calls, cb),
     skip  |-> CbReturn(cb, pid, exit_code) \/ acc.skip]

RECURSIVE InvokeLoop(_, _, _, _)
InvokeLoop(e, pid, exit_code, acc) ==
    IF e = <<>> THEN acc
    ELSE InvokeLoop(Tail(e), pid, exit_code, CbStep(Head(e), pid, exit_code, acc))

\* One fan-out: the callbacks called, in order, and the value returned.
soft_kills_invoke_cbs(pid, exit_code) ==
    LET r == InvokeLoop(cb_list, pid, exit_code, [calls |-> <<>>, skip |-> FALSE])
    IN [pid |-> pid, exit_code |-> exit_code, calls |-> r.calls, skip |-> r.skip]

ListInsertAtTail(list, cb) == Append(list, cb)      \* appends instead of prepending

\* e->next = cb_list; cb_list = e;
ListInsert(list, cb) == <<cb>> \o list

\* ------------------------------------------------------------- job members
\* One iteration of the loop of soft_kills_handle_job_termination over the pid
\* list: the fan-out, then NtTerminateProcess unless a callback asked to skip or
\* the pid cannot be opened.  NtTerminateProcess on the own process does not return.
JobStepKillsAll(pid, exit_code, conv, acc) ==       \* the callbacks' answer is ignored
    LET f == soft_kills_invoke_cbs(pid, exit_code)
        kill == pid \in conv
    IN [fanouts |-> Append(acc.fanouts, f),
        killed  |-> IF kill THEN Append(acc.killed, <<pid, exit_code>>) ELSE acc.killed,
        died    |-> kill /\ pid = OwnPid]

JobStep(pid, exit_code, conv, acc) ==
    LET f == soft_kills_invoke_cbs(pid, exit_code)
        kill == ~f.skip /\ pid \in conv
    IN [fanouts |-> Append(acc.fanouts, f),
        killed  |-> IF kill THEN Append(acc.killed, <<pid, exit_code>>) ELSE acc.killed,
        died    |-> kill /\ pid = OwnPid]

RECURSIVE JobLoop(_, _, _, _)
JobLoop(list, exit_code, conv, acc) ==
    IF list = <<>> \/ acc.died THEN acc
    ELSE JobLoop(Tail(list), exit_code, conv, JobStep(Head(list), exit_code, conv, acc))

NoJobEffect == [fanouts |-> <<>>, killed |-> <<>>, died |-> FALSE]

\* num_job_object_pids: the number of assigned processes, or -1 if the query fails.
num_job_object_pids(members, q1ok) == IF q1ok THEN Len(members) ELSE -1

\* members: the job's processes; q1ok, q2ok: whether the two
\* NtQueryInformationJobObject calls succeed; conv: the pids that can be opened.
\* acc: what the caller has done so far (the sweep at exit handles several jobs).
soft_kills_handle_job_termination(members, q1ok, q2ok, exit_code, conv, acc) ==
    IF num_job_object_pids(members, q1ok) > 0 /\ q2ok
    THEN JobLoop(members, exit_code, conv, acc)
    ELSE acc

soft_kills_handle_close(members, q1ok, q2ok, exit_code, conv, acc) ==
    soft_kills_handle_job_termination(members, q1ok, q2ok, exit_code, conv, acc)

\* --------------------------------------------------------------- lifecycle
drx_init ==
    /\ running /\ cb_lock # "destroyed" /\ obs = NoObs
    /\ drx_init_count < MaxInit
    /\ drx_init_count' = drx_init_count + 1
    /\ obs' = NoObs
    /\ UNCHANGED <<platform, debug, running, soft_kills_enabled, soft_kills_init_count, cb_lock,
                   cb_list, registered, events, job_table, cls, call, mem,
                   requested, init_result>>
    /\ UNCHANGED xvars

\* What soft_kills_init has registered when it returns; fail names the step that
\* fails: resolving a system call number, the CLS field, the pre- or the
\* post-syscall event.  UNIX has neither system call numbers nor a CLS field.
InitEvents(fail) ==
    LET c == IF platform = "WINDOWS" THEN {"cls"} ELSE {}
    IN CASE fail = "none"   -> c \cup {"pre", "post", "filter"}
         [] fail = "sysnum" -> {}
         [] fail = "cls"    -> {}
         [] fail = "pre"    -> c
         [] fail = "post"   -> c \cup {"pre"}

\* The value soft_kills_init returns: false at the first step that fails.
soft_kills_init_value(fail) == fail = "none"

soft_kills_init(fail) ==
    /\ soft_kills_enabled' = TRUE
    /\ cb_lock' = "created"
    /\ events' = InitEvents(fail)
    /\ init_result' = IF soft_kills_init_value(fail) THEN "ok" ELSE "failed"

\* The value drx_register_soft_kills returns: the value of soft_kills_init is not
\* used, and the only return statement is return true.
RegisterValue(first, init_ok) == TRUE

IsFirstRegistrationAlways(count) == TRUE             \* soft_kills_init() on every call

\* if (count == 1) soft_kills_init();
IsFirstRegistration(count) == count = 1

\* drx_register_soft_kills(event_cb)
drx_register_soft_kills ==
    \E event_cb \in Callbacks, fail \in InitFailures :
        /\ running /\ drx_init_count > 0 /\ cb_lock # "destroyed" /\ obs = NoObs
        /\ soft_kills_init_count < MaxCbs
        /\ platform = "UNIX" => fail \in {"none", "pre", "post"}
        /\ soft_kills_init_count' = soft_kills_init_count + 1
        /\ IF IsFirstRegistration(soft_kills_init_count')
           THEN soft_kills_init(fail)
           ELSE /\ fail = "none"
                /\ UNCHANGED <<soft_kills_enabled, cb_lock, events, init_result>>
        /\ cb_list' = ListInsert(cb_list, event_cb)
        /\ registered' = Append(registered, event_cb)
        /\ obs' = [NoObs EXCEPT !.op = "register",
                                !.init = IF soft_kills_init_count' = 1
                                         THEN init_result' ELSE "none",
                                !.ret = RegisterValue(soft_kills_init_count' = 1,
                                                      soft_kills_init_value(fail))]
        /\ UNCHANGED <<platform, debug, running, drx_init_count, job_table, cls, call, mem,
                       requested>>
        /\ UNCHANGED xvars

\* The sweep of soft_kills_exit over the job table, in table order.
RECURSIVE ExitSweep(_, _, _, _, _, _)
ExitSweep(jobs, members, qok, exit_code, conv, acc) ==
    IF jobs = <<>> \/ acc.died THEN acc
    ELSE ExitSweep(Tail(jobs), members, qok, exit_code, conv,
                   soft_kills_handle_close(members[Head(jobs)], qok, qok,
                                           exit_code, conv, acc))

SweepExitCodeZero(got_code, app_code) == 0         \* the exit status is not looked up

\* if (!get_app_exit_code(&exit_code)) exit_code = 0;
SweepExitCode(got_code, app_code) == IF got_code THEN app_code ELSE 0

\* got_code, app_code: what get_app_exit_code returns and reads; members: the
\* processes of each job of the table; torn: soft_kills_exit has run before.
soft_kills_exit(got_code, app_code, members, qok, conv, torn) ==
    LET exit_code == SweepExitCode(got_code, app_code)
        jobs == IF platform = "WINDOWS" THEN SortedSeq(job_table) ELSE <<>>
        r == ExitSweep(jobs, members, qok, exit_code, conv, NoJobEffect)
    IN /\ obs' = [NoObs EXCEPT !.op = "exit", !.teardown = TRUE, !.torn = torn,
                               !.returned = ~r.died, !.code = exit_code,
                               !.got = got_code, !.app = app_code,
                               !.table0 = job_table,
                               !.sweep = [i \in DOMAIN jobs |-> members[jobs[i]]],
                               !.enum = qok, !.conv = conv,
                               !.fanouts = r.fanouts, !.killed = r.killed]
       /\ running' = ~r.died
       /\ IF r.died
          THEN UNCHANGED <<job_table, cb_list, cb_lock, requested>>
          ELSE /\ job_table' = {}
               /\ cb_list' = <<>>
               /\ cb_lock' = "destroyed"
               /\ requested' = {}

ExitIsLastOrLater(count) == count <= 0             \* if (count > 0) return;

\* if (count != 0) return;
ExitIsLast(count) == count = 0

drx_exit ==
    \E app \in AppExitCodes, members \in [job_table -> MemberLists], qok \in BOOLEAN,
       conv \in Convertible :
        LET count == drx_init_count - 1
            torn == cb_lock = "destroyed"
        IN /\ running /\ obs = NoObs
           /\ drx_init_count > -MaxInit
           /\ drx_init_count' = count
           /\ IF ExitIsLast(count) /\ soft_kills_enabled
              THEN /\ soft_kills_exit(app[1], app[2], members, qok, conv, torn)
                   /\ job_table = {} => qok
                   /\ events' = IF running' THEN {} ELSE events
              ELSE /\ app = <<TRUE, 0>> /\ conv = Pids /\ qok
                   /\ \A j \in job_table : members[j] = <<>>
                   /\ events' = IF ExitIsLast(count) THEN {} ELSE events
                   /\ obs' = [NoObs EXCEPT !.op = "exit", !.torn = torn]
                   /\ UNCHANGED <<running, job_table, cb_list, cb_lock, requested>>
           /\ UNCHANGED <<platform, debug, soft_kills_enabled, soft_kills_init_count,
                          registered, cls, call, mem, init_result>>
           /\ UNCHANGED xvars

\* ------------------------------------------------- pre-syscall: terminate
dr_convert_handle_to_pid(proc) ==
    IF proc = NT_CURRENT_PROCESS THEN OwnPid
    ELSE IF proc - 10 \in Pids THEN proc - 10
    ELSE INVALID_PROCESS_ID

\* What the handler tells DR: whether to execute the system call, and the result
\* it set with dr_syscall_set_result, if any.
Execute == [execute |-> TRUE, result_set |-> FALSE, result |-> 0]
SkipNoResult == [execute |-> FALSE, result_set |-> FALSE, result |-> 0]  \* no set_result
SkipWithSuccess == [execute |-> FALSE, result_set |-> TRUE, result |-> 0]

\* The configuration and the close branch fall through to the final return true.
FallThrough == Execute

TerminateDecisionNoSkip(pid, exit_code) ==          \* the callbacks' answer is ignored
    IF pid # INVALID_PROCESS_ID /\ pid # OwnPid
    THEN [fanouts |-> <<soft_kills_invoke_cbs(pid, exit_code)>>, ret |-> Execute]
    ELSE [fanouts |-> <<>>, ret |-> Execute]

TerminateDecisionOwnToo(pid, exit_code) ==          \* pid != dr_get_process_id() left out
    IF pid # INVALID_PROCESS_ID
    THEN LET f == soft_kills_invoke_cbs(pid, exit_code)
         IN [fanouts |-> <<f>>, ret |-> IF f.skip THEN SkipWithSuccess ELSE Execute]
    ELSE [fanouts |-> <<>>, ret |-> Execute]

\* The branch sysnum == sysnum_TerminateProcess once the handle is resolved, and
\* the branch sysnum == SYS_kill once the signal is known to be SIGKILL.
TerminateDecision(pid, exit_code) ==
    IF pid # INVALID_PROCESS_ID /\ pid # OwnPid
    THEN LET f == soft_kills_invoke_cbs(pid, exit_code)
         IN [fanouts |-> <<f>>, ret |-> IF f.skip THEN SkipWithSuccess ELSE Execute]
    ELSE [fanouts |-> <<>>, ret |-> Execute]

PreTerminateProcess ==
    \E proc \in ProcHandles, exit_code \in ExitCodes :
        LET pid == dr_convert_handle_to_pid(proc)
            d == TerminateDecision(pid, exit_code)
        IN /\ platform = "WINDOWS"
           /\ obs' = [NoObs EXCEPT !.op = "TerminateProcess", !.target = pid,
                                   !.code = exit_code, !.fanouts = d.fanouts,
                                   !.execute = d.ret.execute,
                                   !.result_set = d.ret.result_set,
                                   !.result = d.ret.result]
           /\ call' = IF d.ret.execute
                      THEN [Idle EXCEPT !.kind = "TerminateProcess",
                                                                !.stage = "insys"]
                      ELSE call
           /\ UNCHANGED <<running, job_table, cls, mem, outer>>

\* SYS_kill: only SIGKILL sent to another process is a termination to watch.
KillDecision(pid, sig) ==
    IF sig = SIGKILL
    THEN TerminateDecision(pid, sig * 256)       \* exit_code = sig << 8
    ELSE [fanouts |-> <<>>, ret |-> Execute]

PreKill ==
    \E pid \in Pids \cup {INVALID_PROCESS_ID}, sig \in Signals :
        LET d == KillDecision(pid, sig)
        IN /\ platform = "UNIX"
           /\ obs' = [NoObs EXCEPT !.op = "kill", !.target = pid,
                                   !.code = sig * 256, !.sig = sig, !.fanouts = d.fanouts,
                                   !.execute = d.ret.execute,
                                   !.result_set = d.ret.result_set,
                                   !.result = d.ret.result]
           /\ call' = IF d.ret.execute
                      THEN [Idle EXCEPT !.kind = "kill",
                                                                !.stage = "insys"]
                      ELSE call
           /\ UNCHANGED <<running, job_table, cls, mem, outer>>

\* ------------------------------------------------ pre-syscall: job, close
JobTerminationReturnIfAny(r) ==                     \* skips only if a member was notified
    IF r.fanouts = <<>> THEN Execute ELSE SkipWithSuccess

\* The branch sysnum == sysnum_TerminateJobObject after the members were handled:
\* dr_syscall_set_result(drcontext, 0); return false;
JobTerminationReturn(r) == SkipWithSuccess

PreTerminateJobObject ==
    \E job \in JobHandles, exit_code \in ExitCodes, members \in MemberLists,
       q1ok \in BOOLEAN, q2ok \in BOOLEAN, conv \in Convertible :
        LET r == soft_kills_handle_job_termination(members, q1ok, q2ok, exit_code,
                                                   conv, NoJobEffect)
            ret == JobTerminationReturn(r)
        IN /\ platform = "WINDOWS"
           /\ q1ok \/ q2ok                \* the second query is not made without the first
           /\ obs' = [NoObs EXCEPT !.op = "TerminateJobObject", !.code = exit_code, !.members = members,
                                   !.enum = (q1ok /\ q2ok), !.conv = conv,
                                   !.fanouts = r.fanouts, !.killed = r.killed,
                                   !.returned = ~r.died,
                                   !.execute = IF r.died THEN FALSE ELSE ret.execute,
                                   !.result_set = IF r.died THEN FALSE ELSE ret.result_set,
                                   !.result = ret.result]
           /\ running' = ~r.died
           /\ call' = IF ~r.died /\ ret.execute
                      THEN [Idle EXCEPT !.kind = "TerminateJobObject",
                                                                !.stage = "insys"]
                      ELSE call
           /\ UNCHANGED <<job_table, cls, mem, outer>>

hashtable_remove_keeps(table, key) ==               \* the key is left in the table
    [found |-> key \in table, table |-> table]

hashtable_remove_found(table, key) ==               \* reports any key as found
    [found |-> TRUE, table |-> table \ {key}]

\* hashtable_remove(&job_table, handle): whether the key was there.
hashtable_remove(table, key) == [found |-> key \in table, table |-> table \ {key}]

\* hashtable_add(&job_table, job, job): false, and no change, if the key is there.
hashtable_add(table, key) == [isnew |-> key \notin table, table |-> table \cup {key}]

PreClose ==
    \E handle \in JobHandles \cup {19}, members \in MemberLists,
       q1ok \in BOOLEAN, q2ok \in BOOLEAN, conv \in Convertible :
        LET rm == hashtable_remove(job_table, handle)
            r == IF rm.found
                 THEN soft_kills_handle_close(members, q1ok, q2ok, 0, conv, NoJobEffect)
                 ELSE NoJobEffect
        IN /\ platform = "WINDOWS"
           /\ q1ok \/ q2ok
           /\ ~rm.found => (members = <<>> /\ q1ok /\ q2ok /\ conv = Pids)
           /\ job_table' = rm.table
           /\ obs' = [NoObs EXCEPT !.op = "Close", !.target = handle,
                                   !.table0 = job_table,
                                   !.members = members, !.enum = (rm.found /\ q1ok /\ q2ok),
                                   !.conv = conv,
                                   !.fanouts = r.fanouts, !.killed = r.killed,
                                   !.returned = ~r.died,
                                   !.execute = (~r.died /\ FallThrough.execute),
                                   !.result_set = (~r.died /\ FallThrough.result_set)]
           /\ running' = ~r.died
           /\ call' = IF r.died THEN call
                      ELSE [Idle EXCEPT !.kind = "Close", !.stage = "insys",
                                        !.job = handle]
           /\ UNCHANGED <<cls, mem, outer>>

\* ------------------------------------------------- pre-syscall: configure
InfoReadAnySize(class, sz, rok) ==                  \* sz is not compared with sizeof(info)
    class = "JobObjectExtendedLimitInformation" /\ rok

\* class == JobObjectExtendedLimitInformation && sz >= sizeof(info) && dr_safe_read(..)
InfoRead(class, sz, rok) ==
    class = "JobObjectExtendedLimitInformation" /\ sz >= SizeofInfo /\ rok

new_flags_kept(flags) == flags                      \* the flag is not cleared

\* new_flags = info.BasicLimitInformation.LimitFlags & ~JOB_OBJECT_LIMIT_KILL_ON_JOB_CLOSE
new_flags(flags) == ClearFlag(JOB_OBJECT_LIMIT_KILL_ON_JOB_CLOSE, flags)

\* &ptr->BasicLimitInformation.LimitFlags
LimitFlagsLoc(ptr) == ptr + LimitFlagsOffset

\* A write to loc by someone else ends the patch of a call on that location.
Touch(c, loc) ==
    IF c.ptr # NULL /\ LimitFlagsLoc(c.ptr) = loc THEN [c EXCEPT !.patched = FALSE] ELSE c

\* The interrupted contexts, once the context that runs has patched a buffer.
Interrupted(stack) ==
    [i \in DOMAIN stack |-> [stack[i] EXCEPT !.call.inner = TRUE]]

ASSERT_in_every_build(x) == x                       \* DR_ASSERT_MSG without #ifdef DEBUG

\* ASSERT(x, msg): DR_ASSERT_MSG(x, msg), which aborts the process if x is false, in
\* a DEBUG build, and nothing otherwise.  The value: execution goes on.
ASSERT(x) == debug => x

\* rok, wok: whether dr_safe_read and dr_safe_write succeed.
PreSetInformationJobObject ==
    \E job \in JobHandles, class \in InfoClasses, sz \in InfoSizes, ptr \in Buffers,
       rok \in BOOLEAN, wok \in BOOLEAN :
        LET loc == LimitFlagsLoc(ptr)
            flags == mem[loc]
            read == InfoRead(class, sz, rok)
            patch == read /\ TEST(JOB_OBJECT_LIMIT_KILL_ON_JOB_CLOSE, flags)
            add == hashtable_add(job_table, job)
            me == [kind |-> "SetInformationJobObject", stage |-> "insys", job |-> job,
                   ptr |-> IF read THEN ptr ELSE NULL,
                   flags0 |-> IF read THEN flags ELSE 0,
                   patched |-> patch /\ wok, inner |-> FALSE]
            ok == patch => ASSERT(add.isnew)         \* ASSERT(isnew, "missed an NtClose")
        IN /\ platform = "WINDOWS"
           /\ ~patch => wok
           /\ IF patch
              THEN /\ cls' = [job_limit_flags_orig |-> flags, job_limit_flags_loc |-> loc]
                   /\ mem' = IF wok THEN [mem EXCEPT ![loc] = new_flags(flags)] ELSE mem
                   /\ job_table' = add.table
              ELSE UNCHANGED <<cls, mem, job_table>>
           /\ call' = IF ok THEN me ELSE call
           /\ outer' = IF patch THEN Interrupted(outer) ELSE outer
           /\ obs' = [NoObs EXCEPT !.op = "SetInformationJobObject", !.target = job,
                                   !.table0 = job_table,
                                   !.returned = ok,
                                   !.execute = (ok /\ FallThrough.execute),
                                   !.result_set = (ok /\ FallThrough.result_set),
                                   !.ptr = me.ptr, !.flags0 = me.flags0,
                                   !.class = class, !.size = sz, !.readable = rok,
                                   !.wrote = (patch /\ wok),
                                   !.loc = IF patch THEN loc ELSE NULL]
           /\ running' = ok

soft_kills_pre_syscall ==
    /\ running /\ Hooked
    /\ call.stage = "idle" /\ obs = NoObs
    /\ \/ PreTerminateProcess
       \/ PreTerminateJobObject
       \/ PreSetInformationJobObject
       \/ PreClose
       \/ PreKill
    /\ UNCHANGED <<platform, debug, drx_init_count, soft_kills_enabled, soft_kills_init_count,
                   cb_lock, cb_list, registered, events, requested, init_result>>
    /\ UNCHANGED <<pc, frame, cb_owner, table_owner, notified>>

\* ------------------------------------------------------------ post-syscall
RestorePatched(c) == new_flags(c.job_limit_flags_orig)  \* writes the patched value back

ClearRecordIfWritten(c, wok) ==                     \* cleared only if the write succeeded
    IF wok THEN [c EXCEPT !.job_limit_flags_loc = NULL] ELSE c

\* cls->job_limit_flags_loc = NULL, after the write whether it succeeded or not
ClearRecord(c, wok) == [c EXCEPT !.job_limit_flags_loc = NULL]

\* The value soft_kills_post_syscall writes back, and where.
RestoreValue(c) == c.job_limit_flags_orig
RestoreLoc(c) == c.job_limit_flags_loc

\* The kernel executes the call, reading the LimitFlags from the buffer, and DR raises
\* the post-syscall event as it returns: one step.  sysok: the system call succeeds;
\* a configuration that succeeds takes effect with the flags the caller passed, and
\* NtClose closes the handle.
soft_kills_post_syscall ==
    \E wok \in BOOLEAN, sysok \in BOOLEAN :
        LET me == call
            c == cls
            config == me.kind = "SetInformationJobObject"
            restore == config /\ c.job_limit_flags_loc # NULL
            loc == RestoreLoc(c)
        IN /\ running /\ Hooked
           /\ me.stage = "insys" /\ obs = NoObs
           /\ ~restore => wok
           /\ ~config => sysok
           /\ requested' =
                 CASE me.kind = "Close" -> requested \ {me.job}
                   [] config /\ sysok /\ me.ptr # NULL ->
                        IF TEST(JOB_OBJECT_LIMIT_KILL_ON_JOB_CLOSE, me.flags0)
                        THEN requested \cup {me.job}
                        ELSE requested \ {me.job}
                   [] OTHER -> requested
           /\ IF restore
              THEN /\ mem' = IF wok THEN [mem EXCEPT ![loc] = RestoreValue(c)] ELSE mem
                   /\ cls' = ClearRecord(c, wok)
              ELSE UNCHANGED <<cls, mem>>
           /\ call' = Idle
           /\ obs' = [NoObs EXCEPT !.op = "post", !.sys = me.kind,
                                   !.seen = IF config /\ me.ptr # NULL
                                            THEN mem[LimitFlagsLoc(me.ptr)] ELSE 0,
                                   !.clean = me.patched,
                                   !.ptr = me.ptr, !.flags0 = me.flags0,
                                   !.wrote = (restore /\ wok),
                                   !.loc = IF restore THEN loc ELSE NULL,
                                   !.target = me.job, !.ret = sysok,
                                   !.inner = me.inner]
           /\ UNCHANGED <<platform, debug, running, drx_init_count, soft_kills_enabled,
                          soft_kills_init_count, cb_lock, cb_list, registered, events,
                          job_table, init_result>>
           /\ UNCHANGED xvars

\* ------------------------------------------------------------- application
\* The application (this or another thread) writes the LimitFlags of a buffer.
AppWrite ==
    \E loc \in Locs, v \in FlagVals :
        /\ running /\ obs = NoObs
        /\ mem[loc] # v
        /\ mem' = [mem EXCEPT ![loc] = v]
        /\ call' = Touch(call, loc)
        /\ obs' = NoObs
        /\ UNCHANGED <<platform, debug, running, drx_init_count, soft_kills_enabled,
                       soft_kills_init_count, cb_lock, cb_list, registered, events,
                       job_table, cls, requested, init_result>>
        /\ UNCHANGED xvars

\* DR returns control to the application; what the handler reported is consumed.
AppResume ==
    /\ obs # NoObs
    /\ obs' = NoObs
    /\ UNCHANGED <<platform, debug, running, drx_init_count, soft_kills_enabled,
                   soft_kills_init_count, cb_lock, cb_list, registered, events,
                   job_table, cls, call, mem, requested, init_result>>
    /\ UNCHANGED xvars

Next ==
    \/ drx_init
    \/ drx_register_soft_kills
    \/ drx_exit
    \/ soft_kills_pre_syscall
    \/ soft_kills_post_syscall
    \/ AppWrite
    \/ AppResume

Spec == Init /\ [][Next]_vars

\* ================================================================== threads
\* The same library entered by several threads, statement by statement where the
\* callback list, the job table and their locks are used.  The variables of the
\* system-call arguments (cls, call, mem, obs) are not used here.
callvars == <<platform, debug, cls, call, mem, requested, obs, outer>>
othervars == <<callvars, notified>>

InitThreads ==
    /\ platform = "WINDOWS"
    /\ debug \in BOOLEAN
    /\ running = TRUE
    /\ drx_init_count = 1              \* the client has called drx_init
    /\ soft_kills_enabled = FALSE
    /\ soft_kills_init_count = 0
    /\ cb_lock = "null"
    /\ cb_list = <<>>
    /\ registered = <<>>
    /\ events = {}
    /\ job_table = {}
    /\ cls = ClsZero
    /\ call = Idle
    /\ mem = [l \in Locs |-> 8]
    /\ requested = {}
    /\ init_result = "none"
    /\ obs = NoObs
    /\ pc = [t \in Threads |-> "idle"]
    /\ frame = [t \in Threads |-> NoFrame]
    /\ cb_owner = 0
    /\ table_owner = 0
    /\ outer = <<>>
    /\ notified = [h \in JobHandles |-> 0]

Goto(t, label) == pc' = [pc EXCEPT ![t] = label]

\* ------------------------------------------------ drx_register_soft_kills
\* count = dr_atomic_add32_return_sum(&soft_kills_init_count, 1);
\* if (count == 1) soft_kills_init();
RegisterEnter(t) ==
    \E event_cb \in Callbacks :
        /\ running /\ pc[t] = "idle"
        /\ soft_kills_init_count < MaxCbs
        /\ soft_kills_init_count' = soft_kills_init_count + 1
        /\ frame' = [frame EXCEPT ![t] = [NoFrame EXCEPT !.cb = event_cb]]
        /\ Goto(t, IF IsFirstRegistration(soft_kills_init_count')
                   THEN "init_enabled" ELSE "reg_lock")
        /\ UNCHANGED <<running, drx_init_count, soft_kills_enabled, cb_lock, cb_list,
                       registered, events, job_table, init_result, cb_owner,
                       table_owner>>
        /\ UNCHANGED othervars

\* soft_kills_init, statement by statement: soft_kills_enabled = true;
InitEnabled(t) ==
    /\ running /\ pc[t] = "init_enabled"
    /\ soft_kills_enabled' = TRUE
    /\ Goto(t, "init_mutex")
    /\ UNCHANGED <<running, drx_init_count, soft_kills_init_count, cb_lock, cb_list,
                   registered, events, job_table, init_result, frame, cb_owner,
                   table_owner>>
    /\ UNCHANGED othervars

\* cb_lock = dr_mutex_create();
InitMutex(t) ==
    /\ running /\ pc[t] = "init_mutex"
    /\ cb_lock' = "created"
    /\ cb_owner' = 0
    /\ Goto(t, "init_events")
    /\ UNCHANGED <<running, drx_init_count, soft_kills_enabled, soft_kills_init_count,
                   cb_list, registered, events, job_table, init_result, frame,
                   table_owner>>
    /\ UNCHANGED othervars

\* hashtable_init, the system call numbers, the CLS field and the events; return true
InitRegisterEvents(t) ==
    /\ running /\ pc[t] = "init_events"
    /\ events' = InitEvents("none")
    /\ init_result' = "ok"
    /\ Goto(t, "reg_lock")
    /\ UNCHANGED <<running, drx_init_count, soft_kills_enabled, soft_kills_init_count,
                   cb_lock, cb_list, registered, job_table, frame, cb_owner,
                   table_owner>>
    /\ UNCHANGED othervars

\* Where a thread is when it calls dr_mutex_lock(cb_lock), and where it continues.
AfterLock(label) ==
    CASE label = "reg_lock"  -> "reg_next"
      [] label = "inv_lock"  -> "inv_loop"
      [] label = "exit_lock" -> "exit_free"

LockPcs == {"reg_lock", "inv_lock", "exit_lock"}

\* What the thread has read when the lock is its own: e = cb_list in the loop header
\* of soft_kills_invoke_cbs.
Locked(t) ==
    IF pc[t] = "inv_lock"
    THEN [frame EXCEPT ![t].e = cb_list, ![t].seen = cb_list, ![t].calls = <<>>]
    ELSE frame

LockFreeAlways(owner) == TRUE                       \* does not wait for the holder

\* dr_mutex_lock returns once no thread holds the lock.
LockFree(owner) == owner = 0

\* dr_mutex_lock(cb_lock) on the lock while it exists: waits until it is free.
MutexLock(t) ==
    /\ running /\ pc[t] \in LockPcs
    /\ cb_lock = "created" /\ LockFree(cb_owner)
    /\ cb_owner' = t
    /\ frame' = Locked(t)
    /\ Goto(t, AfterLock(pc[t]))
    /\ UNCHANGED <<running, drx_init_count, soft_kills_enabled, soft_kills_init_count,
                   cb_lock, cb_list, registered, events, job_table, init_result,
                   table_owner>>
    /\ UNCHANGED othervars

\* dr_mutex_lock(cb_lock) while cb_lock is still NULL: a null pointer is
\* dereferenced and the process dies.
MutexLockNull(t) ==
    /\ running /\ pc[t] \in LockPcs
    /\ cb_lock = "null"
    /\ running' = FALSE
    /\ UNCHANGED <<drx_init_count, soft_kills_enabled, soft_kills_init_count, cb_lock,
                   cb_list, registered, events, job_table, init_result, pc, frame,
                   cb_owner, table_owner>>
    /\ UNCHANGED othervars

\* dr_mutex_lock(cb_lock) after dr_mutex_destroy(cb_lock): the memory of the lock
\* has been freed.  The thread dies, or goes on without any thread being kept out.
MutexLockDestroyed(t) ==
    \E dies \in BOOLEAN :
        /\ running /\ pc[t] \in LockPcs
        /\ cb_lock = "destroyed"
        /\ running' = ~dies
        /\ frame' = IF dies THEN frame ELSE Locked(t)
        /\ pc' = IF dies THEN pc ELSE [pc EXCEPT ![t] = AfterLock(pc[t])]
        /\ UNCHANGED <<drx_init_count, soft_kills_enabled, soft_kills_init_count,
                       cb_lock, cb_list, registered, events, job_table, init_result,
                       cb_owner, table_owner>>
        /\ UNCHANGED othervars

\* e->next = cb_list;
RegisterNext(t) ==
    /\ running /\ pc[t] = "reg_next"
    /\ frame' = [frame EXCEPT ![t].next = cb_list]
    /\ Goto(t, "reg_head")
    /\ UNCHANGED <<running, drx_init_count, soft_kills_enabled, soft_kills_init_count,
                   cb_lock, cb_list, registered, events, job_table, init_result,
                   cb_owner, table_owner>>
    /\ UNCHANGED othervars

\* cb_list = e;
RegisterHead(t) ==
    /\ running /\ pc[t] = "reg_head"
    /\ cb_list' = ListInsert(frame[t].next, frame[t].cb)
    /\ registered' = Append(registered, frame[t].cb)
    /\ Goto(t, "reg_unlock")
    /\ UNCHANGED <<running, drx_init_count, soft_kills_enabled, soft_kills_init_count,
                   cb_lock, events, job_table, init_result, frame, cb_owner,
                   table_owner>>
    /\ UNCHANGED othervars

UnlockPcs == {"reg_unlock", "inv_unlock", "exit_unlock"}

\* Where the thread continues after dr_mutex_unlock(cb_lock), and with what locals:
\* drx_register_soft_kills returns; soft_kills_invoke_cbs returns to the loop over
\* the pids (or to its caller after the last one); soft_kills_exit goes on.
AfterUnlock(t) ==
    LET f == frame[t]
    IN CASE pc[t] = "reg_unlock"  -> [label |-> "idle", frame |-> NoFrame]
         [] pc[t] = "exit_unlock" -> [label |-> "exit_destroy", frame |-> f]
         [] pc[t] = "inv_unlock"  ->
              IF Len(f.todo) > 1
              THEN [label |-> "inv_lock",
                    frame |-> [f EXCEPT !.todo = Tail(f.todo), !.e = <<>>,
                                        !.seen = <<>>, !.calls = <<>>]]
              ELSE [label |-> f.ret,
                    frame |-> IF f.ret = "idle" THEN NoFrame
                              ELSE [f EXCEPT !.todo = <<>>, !.e = <<>>, !.seen = <<>>,
                                             !.calls = <<>>]]

ReleasedNever(owner, t) == owner                    \* the lock stays with its holder

\* The holder of a lock after its holder t has unlocked it.
Released(owner, t) == IF owner = t THEN 0 ELSE owner

\* dr_mutex_unlock(cb_lock)
MutexUnlock(t) ==
    /\ running /\ pc[t] \in UnlockPcs
    /\ cb_owner' = Released(cb_owner, t)
    /\ frame' = [frame EXCEPT ![t] = AfterUnlock(t).frame]
    /\ Goto(t, AfterUnlock(t).label)
    /\ UNCHANGED <<running, drx_init_count, soft_kills_enabled, soft_kills_init_count,
                   cb_lock, cb_list, registered, events, job_table, init_result,
                   table_owner>>
    /\ UNCHANGED othervars

\* ---------------------------------------------------- soft_kills_invoke_cbs
\* for (e = cb_list; e != NULL; e = e->next) skip = e->cb(pid, exit_code) || skip;
InvokeNext(t) ==
    LET f == frame[t]
        r == CbStep(Head(f.e), Head(f.todo), 0, [calls |-> f.calls, skip |-> FALSE])
    IN /\ running /\ pc[t] = "inv_loop"
       /\ IF f.e = <<>>
          THEN /\ Goto(t, "inv_unlock")
               /\ UNCHANGED frame
          ELSE /\ frame' = [frame EXCEPT ![t].calls = r.calls, ![t].e = Tail(f.e)]
               /\ UNCHANGED pc
       /\ UNCHANGED <<running, drx_init_count, soft_kills_enabled, soft_kills_init_count,
                      cb_lock, cb_list, registered, events, job_table, init_result,
                      cb_owner, table_owner>>
       /\ UNCHANGED othervars

\* ------------------------------------------------- soft_kills_pre_syscall
\* NtTerminateProcess on another process: one fan-out.
TerminateEnter(t) ==
    \E pid \in Pids \ {OwnPid} :
        /\ running /\ pc[t] = "idle" /\ Hooked
        /\ frame' = [frame EXCEPT ![t] = [NoFrame EXCEPT !.todo = <<pid>>]]
        /\ Goto(t, "inv_lock")
        /\ UNCHANGED <<running, drx_init_count, soft_kills_enabled,
                       soft_kills_init_count, cb_lock, cb_list, registered, events,
                       job_table, init_result, cb_owner, table_owner>>
        /\ UNCHANGED othervars

\* NtTerminateJobObject: soft_kills_handle_job_termination, a fan-out for each
\* process of the job.
TerminateJobEnter(t) ==
    \E members \in MemberLists \ {<<>>} :
        /\ running /\ pc[t] = "idle" /\ Hooked
        /\ frame' = [frame EXCEPT ![t] = [NoFrame EXCEPT !.todo = members]]
        /\ Goto(t, "inv_lock")
        /\ UNCHANGED <<running, drx_init_count, soft_kills_enabled,
                       soft_kills_init_count, cb_lock, cb_list, registered, events,
                       job_table, init_result, cb_owner, table_owner>>
        /\ UNCHANGED othervars

\* hashtable_delete has run: the entries and the lock of the table are freed.
Deleted == -1

TableLockPcs == {"cfg_table_lock", "close_table_lock", "exit_table_lock"}

\* NtSetInformationJobObject that asks for kill-on-close, up to hashtable_add.
ConfigureEnter(t) ==
    \E job \in JobHandles :
        /\ running /\ pc[t] = "idle" /\ Hooked
        /\ frame' = [frame EXCEPT ![t] = [NoFrame EXCEPT !.jobs = <<job>>]]
        /\ Goto(t, "cfg_table_lock")
        /\ UNCHANGED <<running, drx_init_count, soft_kills_enabled,
                       soft_kills_init_count, cb_lock, cb_list, registered, events,
                       job_table, init_result, cb_owner, table_owner>>
        /\ UNCHANGED othervars

\* isnew = hashtable_add(&job_table, job, job), which takes and releases the lock of
\* the table; ASSERT(isnew, "missed an NtClose");
ConfigureAdd(t) ==
    LET job == Head(frame[t].jobs)
        add == hashtable_add(job_table, job)
    IN /\ running /\ pc[t] = "cfg_table_lock"
       /\ LockFree(table_owner)
       /\ job_table' = add.table
       /\ running' = ASSERT(add.isnew)
       /\ notified' = IF add.isnew THEN [notified EXCEPT ![job] = 0] ELSE notified
       /\ frame' = [frame EXCEPT ![t] = NoFrame]
       /\ Goto(t, "idle")
       /\ UNCHANGED <<drx_init_count, soft_kills_enabled, soft_kills_init_count,
                      cb_lock, cb_list, registered, events, init_result, cb_owner,
                      table_owner>>
       /\ UNCHANGED callvars

\* soft_kills_handle_close(drcontext, job, exit_code) on a job with these processes
Handled(job, members) ==
    IF members = <<>> THEN notified ELSE [notified EXCEPT ![job] = @ + 1]

TableLockKept(t) == t                               \* the lock is not released

\* The holder of the table's lock when hashtable_remove has returned: it takes the
\* lock and releases it before it returns.
TableLockAfterRemove(t) == 0

\* NtClose, up to hashtable_remove.
CloseEnter(t) ==
    \E handle \in JobHandles :
        /\ running /\ pc[t] = "idle" /\ Hooked
        /\ frame' = [frame EXCEPT ![t] = [NoFrame EXCEPT !.jobs = <<handle>>]]
        /\ Goto(t, "close_table_lock")
        /\ UNCHANGED <<running, drx_init_count, soft_kills_enabled,
                       soft_kills_init_count, cb_lock, cb_list, registered, events,
                       job_table, init_result, cb_owner, table_owner>>
        /\ UNCHANGED othervars

\* if (hashtable_remove(&job_table, handle)) soft_kills_handle_close(.., handle, 0):
\* a fan-out for each process of the job.
CloseRemove(t) ==
    \E members \in MemberLists :
        LET handle == Head(frame[t].jobs)
            rm == hashtable_remove(job_table, handle)
        IN /\ running /\ pc[t] = "close_table_lock"
           /\ LockFree(table_owner)
           /\ ~rm.found => members = <<>>
           /\ job_table' = rm.table
           /\ table_owner' = TableLockAfterRemove(t)
           /\ frame' = [frame EXCEPT ![t] = [NoFrame EXCEPT !.todo = members]]
           /\ Goto(t, IF members = <<>> THEN "idle" ELSE "inv_lock")
           /\ notified' = Handled(handle, members)
           /\ UNCHANGED <<running, drx_init_count, soft_kills_enabled,
                          soft_kills_init_count, cb_lock, cb_list, registered, events,
                          init_result, cb_owner>>
           /\ UNCHANGED callvars

\* hashtable_add or hashtable_remove after hashtable_delete(&job_table): the lock
\* and the buckets of the table have been freed.  The process dies, or the call
\* returns having found nothing and changed nothing.
TableUseAfterDelete(t) ==
    \E dies \in BOOLEAN :
        /\ running /\ pc[t] \in {"cfg_table_lock", "close_table_lock"}
        /\ table_owner = Deleted
        /\ running' = ~dies
        /\ frame' = IF dies THEN frame ELSE [frame EXCEPT ![t] = NoFrame]
        /\ pc' = IF dies THEN pc ELSE [pc EXCEPT ![t] = "idle"]
        /\ UNCHANGED <<drx_init_count, soft_kills_enabled, soft_kills_init_count,
                       cb_lock, cb_list, registered, events, job_table, init_result,
                       cb_owner, table_owner>>
        /\ UNCHANGED othervars

\* ------------------------------------------------ drx_exit, soft_kills_exit
ExitEnter(t) ==
    LET count == drx_init_count - 1
        last == ExitIsLast(count)
    IN /\ running /\ pc[t] = "idle"
       /\ drx_init_count > -MaxInit
       /\ drx_init_count' = count
       /\ Goto(t, IF last /\ soft_kills_enabled THEN "exit_table_lock" ELSE "idle")
       /\ events' = IF last /\ ~soft_kills_enabled THEN {} ELSE events
       /\ UNCHANGED <<running, soft_kills_enabled, soft_kills_init_count, cb_lock,
                      cb_list, registered, job_table, init_result, frame, cb_owner,
                      table_owner>>
       /\ UNCHANGED othervars

\* hashtable_lock(&job_table);
SweepLock(t) ==
    /\ running /\ pc[t] = "exit_table_lock"
    /\ LockFree(table_owner)
    /\ table_owner' = t
    /\ frame' = [frame EXCEPT ![t].jobs = SortedSeq(job_table), ![t].ret = "exit_sweep"]
    /\ Goto(t, "exit_sweep")
    /\ UNCHANGED <<running, drx_init_count, soft_kills_enabled, soft_kills_init_count,
                   cb_lock, cb_list, registered, events, job_table, init_result,
                   cb_owner>>
    /\ UNCHANGED othervars

\* the loop over the entries of the table: soft_kills_handle_close for each
SweepNext(t) ==
    \E members \in MemberLists :
        LET f == frame[t]
        IN /\ running /\ pc[t] = "exit_sweep"
           /\ IF f.jobs = <<>>
              THEN /\ members = <<>>
                   /\ Goto(t, "exit_table_unlock")
                   /\ UNCHANGED <<frame, notified>>
              ELSE /\ frame' = [frame EXCEPT ![t].jobs = Tail(f.jobs),
                                             ![t].todo = members]
                   /\ notified' = Handled(Head(f.jobs), members)
                   /\ Goto(t, IF members = <<>> THEN "exit_sweep" ELSE "inv_lock")
           /\ UNCHANGED <<running, drx_init_count, soft_kills_enabled,
                          soft_kills_init_count, cb_lock, cb_list, registered, events,
                          job_table, init_result, cb_owner, table_owner>>
           /\ UNCHANGED callvars

\* hashtable_unlock(&job_table);
SweepUnlock(t) ==
    /\ running /\ pc[t] = "exit_table_unlock"
    /\ table_owner' = Released(table_owner, t)
    /\ Goto(t, "exit_delete")
    /\ UNCHANGED <<running, drx_init_count, soft_kills_enabled, soft_kills_init_count,
                   cb_lock, cb_list, registered, events, job_table, init_result, frame,
                   cb_owner>>
    /\ UNCHANGED othervars

\* hashtable_delete(&job_table); drmgr_unregister_cls_field(..);
TableDelete(t) ==
    /\ running /\ pc[t] = "exit_delete"
    /\ job_table' = {}
    /\ table_owner' = Deleted
    /\ events' = events \ {"cls"}
    /\ Goto(t, "exit_lock")
    /\ UNCHANGED <<running, drx_init_count, soft_kills_enabled, soft_kills_init_count,
                   cb_lock, cb_list, registered, init_result, frame, cb_owner>>
    /\ UNCHANGED othervars

\* while (cb_list != NULL) { e = cb_list; cb_list = e->next; dr_global_free(e, ..); }
ListFree(t) ==
    /\ running /\ pc[t] = "exit_free"
    /\ IF cb_list # <<>>
       THEN /\ cb_list' = Tail(cb_list)
            /\ UNCHANGED pc
       ELSE /\ Goto(t, "exit_unlock")
            /\ UNCHANGED cb_list
    /\ UNCHANGED <<running, drx_init_count, soft_kills_enabled, soft_kills_init_count,
                   cb_lock, registered, events, job_table, init_result, frame, cb_owner,
                   table_owner>>
    /\ UNCHANGED othervars

\* dr_mutex_destroy(cb_lock);
MutexDestroy(t) ==
    /\ running /\ pc[t] = "exit_destroy"
    /\ cb_lock' = "destroyed"
    /\ Goto(t, "exit_drmgr")
    /\ UNCHANGED <<running, drx_init_count, soft_kills_enabled, soft_kills_init_count,
                   cb_list, registered, events, job_table, init_result, frame, cb_owner,
                   table_owner>>
    /\ UNCHANGED othervars

\* back in drx_exit: drmgr_exit();
DrmgrExit(t) ==
    /\ running /\ pc[t] = "exit_drmgr"
    /\ events' = {}
    /\ frame' = [frame EXCEPT ![t] = NoFrame]
    /\ Goto(t, "idle")
    /\ UNCHANGED <<running, drx_init_count, soft_kills_enabled, soft_kills_init_count,
                   cb_lock, cb_list, registered, job_table, init_result, cb_owner,
                   table_owner>>
    /\ UNCHANGED othervars

NextThreads ==
    \E t \in Threads :
        \/ RegisterEnter(t)
        \/ InitEnabled(t)
        \/ InitMutex(t)
        \/ InitRegisterEvents(t)
        \/ MutexLock(t)
        \/ MutexLockNull(t)
        \/ MutexLockDestroyed(t)
        \/ RegisterNext(t)
        \/ RegisterHead(t)
        \/ MutexUnlock(t)
        \/ InvokeNext(t)
        \/ TerminateEnter(t)
        \/ TerminateJobEnter(t)
        \/ ConfigureEnter(t)
        \/ ConfigureAdd(t)
        \/ CloseEnter(t)
        \/ CloseRemove(t)
        \/ TableUseAfterDelete(t)
        \/ ExitEnter(t)
        \/ SweepLock(t)
        \/ SweepNext(t)
        \/ SweepUnlock(t)
        \/ TableDelete(t)
        \/ ListFree(t)
        \/ MutexDestroy(t)
        \/ DrmgrExit(t)

SpecThreads == InitThreads /\ [][NextThreads]_vars

\* The library once the first drx_register_soft_kills has returned: soft_kills_init
\* has run and one callback is on the list.
InitLive ==
    /\ platform = "WINDOWS"
    /\ debug = FALSE
    /\ running = TRUE
    /\ drx_init_count = 1
    /\ soft_kills_enabled = TRUE
    /\ soft_kills_init_count = 1
    /\ cb_lock = "created"
    /\ cb_list = <<"never">>
    /\ registered = <<"never">>
    /\ events = InitEvents("none")
    /\ job_table = {}
    /\ cls = ClsZero
    /\ call = Idle
    /\ mem = [l \in Locs |-> 8]
    /\ requested = {}
    /\ init_result = "ok"
    /\ obs = NoObs
    /\ pc = [t \in Threads |-> "idle"]
    /\ frame = [t \in Threads |-> NoFrame]
    /\ cb_owner = 0
    /\ table_owner = 0
    /\ outer = <<>>
    /\ notified = [h \in JobHandles |-> 0]

NextLive ==
    \E t \in Threads :
        \/ RegisterEnter(t)
        \/ MutexLock(t)
        \/ MutexLockDestroyed(t)
        \/ RegisterNext(t)
        \/ RegisterHead(t)
        \/ MutexUnlock(t)
        \/ InvokeNext(t)
        \/ TerminateEnter(t)
        \/ TerminateJobEnter(t)
        \/ ConfigureEnter(t)
        \/ ConfigureAdd(t)
        \/ CloseEnter(t)
        \/ CloseRemove(t)
        \/ TableUseAfterDelete(t)
        \/ ExitEnter(t)
        \/ SweepLock(t)
        \/ SweepNext(t)
        \/ SweepUnlock(t)
        \/ TableDelete(t)
        \/ ListFree(t)
        \/ MutexDestroy(t)
        \/ DrmgrExit(t)

\* The threads under a fair scheduler.  A thread inside the library goes on (the
\* callbacks return); dr_mutex_lock and the lock of the table are granted to a
\* thread that finds them free again and again.  Nothing is assumed about when the
\* application enters the library, nor about a lock that has been freed.
Fairness ==
    \A t \in Threads :
        /\ WF_vars(RegisterNext(t) \/ RegisterHead(t) \/ MutexUnlock(t)
                   \/ InvokeNext(t) \/ SweepNext(t) \/ SweepUnlock(t)
                   \/ TableDelete(t) \/ ListFree(t) \/ MutexDestroy(t)
                   \/ DrmgrExit(t))
        /\ SF_vars(MutexLock(t))
        /\ SF_vars(SweepLock(t) \/ ConfigureAdd(t) \/ CloseRemove(t))

SpecLive == InitLive /\ [][NextLive]_vars /\ Fairness

\* ================================================================= contexts
\* One thread whose configuration call is interrupted by a callback that makes
\* configuration calls of its own: drmgr gives each callback depth its own
\* cls_soft_t, which soft_kills_context_init zeroes when the depth is entered.
MaxDepth == 1          \* callbacks nested inside the base context

InitNested ==
    /\ platform = "WINDOWS"
    /\ debug \in BOOLEAN
    /\ running = TRUE
    /\ drx_init_count = 1              \* drx_init and one drx_register_soft_kills
    /\ soft_kills_enabled = TRUE
    /\ soft_kills_init_count = 1
    /\ cb_lock = "created"
    /\ cb_list = <<"never">>
    /\ registered = <<"never">>
    /\ events = InitEvents("none")
    /\ job_table = {}
    /\ cls = ClsZero
    /\ call = Idle
    /\ mem = [l \in Locs |-> 8]
    /\ requested = {}
    /\ init_result = "ok"
    /\ obs = NoObs
    /\ pc = [t \in Threads |-> "idle"]
    /\ frame = [t \in Threads |-> NoFrame]
    /\ cb_owner = 0
    /\ table_owner = 0
    /\ outer = <<>>
    /\ notified = [h \in JobHandles |-> 0]

\* The pre-syscall event of NtSetInformationJobObject, in the context that runs.
ConfigurePre ==
    /\ running /\ Hooked
    /\ call.stage = "idle" /\ obs = NoObs
    /\ PreSetInformationJobObject
    /\ UNCHANGED <<platform, debug, drx_init_count, soft_kills_enabled, soft_kills_init_count,
                   cb_lock, cb_list, registered, events, requested, init_result>>
    /\ UNCHANGED <<pc, frame, cb_owner, table_owner, notified>>

\* soft_kills_context_init: the struct of the new context, allocated (new_depth) or
\* re-used, after memset(cls, 0, sizeof(*cls)).
soft_kills_context_init(new_depth) == ClsZero

\* The kernel calls back into the application while the thread is in a system call.
ContextEnter ==
    \E new_depth \in BOOLEAN :
        /\ running /\ Hooked /\ "cls" \in events
        /\ call.stage = "insys" /\ obs = NoObs
        /\ Len(outer) < MaxDepth
        /\ outer' = <<[cls |-> cls, call |-> call]>> \o outer
        /\ cls' = soft_kills_context_init(new_depth)
        /\ call' = Idle
        /\ UNCHANGED <<platform, debug, running, drx_init_count, soft_kills_enabled,
                       soft_kills_init_count, cb_lock, cb_list, registered, events,
                       job_table, mem, requested, init_result, obs>>
        /\ UNCHANGED <<pc, frame, cb_owner, table_owner, notified>>

ContextRestoreShared(saved, ended) == ended         \* one struct for all the contexts

\* soft_kills_context_exit leaves the struct of the context that ends for re-use;
\* the CLS field is again the struct of the context that was interrupted.
ContextRestore(saved, ended) == saved

\* The callback returns: the interrupted system call goes on.
ContextExit ==
    /\ running /\ Hooked
    /\ outer # <<>>
    /\ call.stage = "idle" /\ obs = NoObs
    /\ cls' = ContextRestore(Head(outer).cls, cls)
    /\ call' = Head(outer).call
    /\ outer' = Tail(outer)
    /\ UNCHANGED <<platform, debug, running, drx_init_count, soft_kills_enabled,
                   soft_kills_init_count, cb_lock, cb_list, registered, events,
                   job_table, mem, requested, init_result, obs>>
    /\ UNCHANGED <<pc, frame, cb_owner, table_owner, notified>>

NextNested ==
    \/ ConfigurePre
    \/ soft_kills_post_syscall
    \/ ContextEnter
    \/ ContextExit
    \/ AppWrite
    \/ AppResume

SpecNested == InitNested /\ [][NextNested]_vars

\* ================================================================== claims
\* Some registered callback asks to skip the kill of pid with this exit code.
AnySuppress(pid, exit_code) ==
    \E i \in DOMAIN registered : CbReturn(registered[i], pid, exit_code)

Count(seq, x) == Cardinality({i \in DOMAIN seq : seq[i] = x})

\* The last handler was the pre-syscall event of a direct termination: NtTerminateProcess,
\* or kill with SIGKILL.
DirectTermination ==
    obs.op = "TerminateProcess" \/ (obs.op = "kill" /\ obs.sig = SIGKILL)

OtherProcess == obs.target # INVALID_PROCESS_ID /\ obs.target # OwnPid

\* C1: a direct termination of another process is skipped, with the result set to
\* success, if and only if some registered callback asked to skip it; otherwise the
\* system call is executed and no result is set.
C1_DirectSkipIffSuppressed ==
    (DirectTermination /\ OtherProcess) =>
        IF AnySuppress(obs.target, obs.code)
        THEN ~obs.execute /\ obs.result_set /\ obs.result = 0
        ELSE obs.execute /\ ~obs.result_set

C1_Witness ==
    /\ DirectTermination /\ OtherProcess
    /\ AnySuppress(obs.target, obs.code)
    /\ ~obs.execute /\ obs.result_set

\* C2: a direct termination of the own process, or of a target that does not resolve,
\* calls no callback, is executed and gets no result set, whatever is registered.
C2_SelfTerminationRuns ==
    (DirectTermination /\ ~OtherProcess) =>
        obs.fanouts = <<>> /\ obs.execute /\ ~obs.result_set

C2_Witness ==
    /\ DirectTermination /\ obs.target = OwnPid
    /\ \E i \in DOMAIN registered : registered[i] = "always"
    /\ obs.execute /\ obs.fanouts = <<>>

\* C3: every fan-out calls each registered callback exactly once, whatever the
\* callbacks return.
C3_EveryCallbackOnce ==
    \A k \in DOMAIN obs.fanouts :
        \A cb \in Callbacks : Count(obs.fanouts[k].calls, cb) = Count(registered, cb)

\* a fan-out in which a callback asked to skip and another one was called after it
C3_Witness ==
    \E k \in DOMAIN obs.fanouts :
        LET f == obs.fanouts[k]
        IN /\ Len(f.calls) >= 2
           /\ CbReturn(f.calls[1], f.pid, f.exit_code)
           /\ f.calls[2] # f.calls[1]

C5_SkipIffAnyCallback ==
    \A k \in DOMAIN obs.fanouts :
        obs.fanouts[k].skip = AnySuppress(obs.fanouts[k].pid, obs.fanouts[k].exit_code)

\* a fan-out that returns true although the callback it called last returned false
C5_Witness ==
    \E k \in DOMAIN obs.fanouts :
        LET f == obs.fanouts[k]
        IN /\ f.skip /\ Len(f.calls) >= 2
           /\ ~CbReturn(f.calls[Len(f.calls)], f.pid, f.exit_code)

KilledSet == {obs.killed[i] : i \in DOMAIN obs.killed}

PreOps == {"TerminateProcess", "kill", "TerminateJobObject", "SetInformationJobObject",
           "Close"}

\* C8: whenever a pre-syscall event returns that the system call is to be skipped,
\* it has set the result, and to success.
C8_SkipMeansSuccess ==
    (obs.op \in PreOps /\ obs.returned /\ ~obs.execute) =>
        (obs.result_set /\ obs.result = 0)

C8_Witness ==
    /\ obs.op = "kill" /\ obs.returned
    /\ ~obs.execute /\ obs.result_set /\ obs.result = 0

KillOnClose == JOB_OBJECT_LIMIT_KILL_ON_JOB_CLOSE

\* The last handler was the post-syscall event of an NtSetInformationJobObject whose
\* buffer held the kill-on-close flag when the call was made.
PostOfRequest ==
    /\ obs.op = "post" /\ obs.sys = "SetInformationJobObject"
    /\ obs.ptr # NULL /\ TEST(KillOnClose, obs.flags0)

\* C9 as claimed: when the kill-on-close flag is requested, the LimitFlags the
\* kernel reads are those of the caller without that flag, and the system call is
\* executed.
C9_FlagNeverReachesKernel ==
    /\ PostOfRequest => obs.seen = ClearFlag(KillOnClose, obs.flags0)
    /\ obs.op = "SetInformationJobObject" => (obs.execute /\ ~obs.result_set)

\* C9 as amended: when the kill-on-close flag is requested and the write of the
\* new flags to the caller's buffer succeeds (and nobody else writes the location
\* before the kernel reads it), the LimitFlags the kernel reads are those of the
\* caller without that flag; the system call is executed in every case.
C9_FlagRemovedIfWritten ==
    /\ (PostOfRequest /\ obs.clean) => obs.seen = ClearFlag(KillOnClose, obs.flags0)
    /\ obs.op = "SetInformationJobObject" => (obs.execute /\ ~obs.result_set)

C9_Witness ==
    /\ PostOfRequest /\ obs.clean
    /\ ~TEST(KillOnClose, obs.seen) /\ obs.seen = obs.flags0 - KillOnClose

\* C10: after the post-syscall event of a call whose buffer was patched (the patch
\* still in place), if the write-back succeeds the patched location holds the
\* LimitFlags the caller passed.
C10_RestoreRoundTrip ==
    (obs.op = "post" /\ obs.clean /\ obs.wrote) =>
        /\ obs.loc = LimitFlagsLoc(obs.ptr)
        /\ mem[LimitFlagsLoc(obs.ptr)] = obs.flags0

C10_Witness ==
    /\ obs.op = "post" /\ obs.clean /\ obs.wrote
    /\ TEST(KillOnClose, obs.flags0)
    /\ mem[obs.loc] = obs.flags0

\* C11 as claimed: whenever no watched call is in progress, the handles of job_table
\* are exactly those whose last configuration that took effect asked for the
\* kill-on-close flag and which have not been closed or torn down since.
C11_TrackedIffRequested ==
    (running /\ call.stage = "idle") => job_table = requested

\* What of C11 the code keeps: every such handle is in job_table.
C11_RequestedAreTracked ==
    (running /\ call.stage = "idle") => requested \subseteq job_table

\* The members handled by soft_kills_handle_job_termination, as C6 (amended) states
\* it, for the fan-outs fs and the terminations ks of one member list.
HandledInOrder(members, fs, ks, code, conv) ==
    LET n == Len(fs)
        kset == {ks[i] : i \in DOMAIN ks}
    IN /\ n <= Len(members)
       /\ \A k \in 1..n :
             /\ fs[k].pid = members[k]
             /\ fs[k].exit_code = code
             /\ (<<members[k], code>> \in kset)
                    <=> (~AnySuppress(members[k], code) /\ members[k] \in conv)
       /\ kset \subseteq {<<members[k], code>> : k \in 1..n}
       /\ n < Len(members) =>
             (n >= 1 /\ members[n] = OwnPid /\ <<OwnPid, code>> \in kset)

CloseTracked == obs.op = "Close" /\ obs.target \in obs.table0

C13_CloseUntrackedUntouched ==
    (obs.op = "Close" /\ obs.target \notin obs.table0) =>
        /\ obs.fanouts = <<>> /\ obs.killed = <<>>
        /\ job_table = obs.table0
        /\ obs.returned /\ obs.execute /\ ~obs.result_set

\* another handle is tracked and callbacks are registered
C13_Witness ==
    /\ obs.op = "Close" /\ obs.target \notin obs.table0
    /\ obs.table0 # {} /\ registered # <<>>
    /\ obs.execute /\ job_table = obs.table0

\* C14 as claimed: drx_register_soft_kills returns false if and only if it ran
\* soft_kills_init and soft_kills_init failed.
C14_RegisterReportsActivation ==
    obs.op = "register" => (obs.ret <=> obs.init # "failed")

\* C15 as claimed: after a failed soft_kills_init the library is not marked
\* enabled, no lock and no event registration of it remains, no callback is called
\* and drx_exit does not run soft_kills_exit.
C15_FailedActivationInert ==
    init_result = "failed" =>
        /\ ~soft_kills_enabled
        /\ cb_lock = "null"
        /\ events = {}
        /\ obs.fanouts = <<>>
        /\ ~obs.teardown

\* The processes the sweep of soft_kills_exit meets, job after job.
RECURSIVE Flatten(_)
Flatten(ss) == IF ss = <<>> THEN <<>> ELSE Head(ss) \o Flatten(Tail(ss))

\* drx_exit ran soft_kills_exit, for the first time.
Teardown == obs.op = "exit" /\ obs.teardown /\ ~obs.torn

ProcessExitCode == IF obs.got THEN obs.app ELSE 0

C17_SecondTeardownDoesNothing ==
    (obs.op = "exit" /\ obs.torn) =>
        /\ ~obs.teardown
        /\ obs.fanouts = <<>> /\ obs.killed = <<>>
        /\ job_table = {} /\ cb_list = <<>> /\ cb_lock = "destroyed"

C17_Witness ==
    /\ obs.op = "exit" /\ obs.torn /\ ~obs.teardown
    /\ registered # <<>> /\ drx_init_count < 0

\* C18 as claimed: no thread holds cb_lock and the lock of job_table at the same
\* time.
C18_LocksNeverHeldTogether ==
    \A t \in Threads : ~(cb_owner = t /\ table_owner = t)

\* Thread t is inside soft_kills_invoke_cbs, called from the sweep of soft_kills_exit.
InSweepFanout(t) ==
    pc[t] \in {"inv_loop", "inv_unlock"} /\ frame[t].ret = "exit_sweep"

\* C18 as amended: a thread holds both locks only inside a fan-out of the sweep of
\* soft_kills_exit, where it took cb_lock while holding the lock of job_table; no
\* thread that holds cb_lock is at a statement that takes the lock of job_table.
C18_LocksTogetherOnlyInSweep ==
    \A t \in Threads :
        /\ (cb_owner = t /\ table_owner = t) => InSweepFanout(t)
        /\ pc[t] \in TableLockPcs \cup {"idle"} => cb_owner # t

\* a callback called in the sweep while both locks are held, and a fan-out of a
\* close on the other thread that waits for cb_lock holding no lock
C18_Witness ==
    \E t \in Threads, u \in Threads :
        /\ cb_owner = t /\ table_owner = t /\ InSweepFanout(t)
        /\ frame[t].calls # <<>>
        /\ u # t /\ pc[u] = "inv_lock" /\ frame[u].ret = "idle"

\* The statements between dr_mutex_lock(cb_lock) and dr_mutex_unlock(cb_lock).
CriticalPcs == {"reg_next", "reg_head", "reg_unlock", "exit_free", "exit_unlock",
                "inv_loop", "inv_unlock"}

Patching(c) ==
    /\ c.kind = "SetInformationJobObject" /\ c.stage = "insys"
    /\ c.ptr # NULL /\ TEST(KillOnClose, c.flags0)

RecordOf(c) ==
    [job_limit_flags_orig |-> c.flags0, job_limit_flags_loc |-> LimitFlagsLoc(c.ptr)]

\* C20: each context has its own record.  While a patching configuration call is in
\* the kernel, in the context that runs or in an interrupted one, the record of its
\* context is the one its pre-syscall event wrote, whatever the contexts that
\* interrupt it do; the post-syscall event of such a call writes to the location of
\* its own buffer, and what it writes there are the flags of its own call; the
\* post-syscall event of a call that did not patch writes nothing.
C20_RecordsIsolated ==
    /\ \A i \in DOMAIN outer :
          Patching(outer[i].call) => outer[i].cls = RecordOf(outer[i].call)
    /\ Patching(call) => cls = RecordOf(call)
    /\ obs.op = "post" =>
          IF PostOfRequest
          THEN /\ obs.loc = LimitFlagsLoc(obs.ptr)
               /\ obs.wrote => mem[obs.loc] = obs.flags0
          ELSE obs.loc = NULL

\* the post-syscall event of a call on buffer 100 that was interrupted by a context
\* which patched and restored a buffer of its own: the flags of buffer 100 are back
C20_Witness ==
    /\ obs.op = "post" /\ PostOfRequest /\ obs.inner
    /\ outer = <<>> /\ obs.ptr = 100
    /\ obs.wrote /\ mem[LimitFlagsLoc(100)] = obs.flags0

\* ---- C21
\* What the one-time setup of soft_kills_init establishes.
SetupState == <<soft_kills_enabled, cb_lock = "null", init_result>>

\* C21: the one-time setup is performed by the first registration and by no other
\* operation: only the call that takes soft_kills_init_count from 0 to 1 sets
\* soft_kills_enabled, creates the lock or registers an event; every later
\* registration only adds its callback to the list; and soft_kills_exit runs only
\* if a registration has been made.
C21_SetupOnlyByFirstRegistration ==
    [][ /\ (SetupState' # SetupState \/ events' \ events # {})
            => (obs'.op = "register" /\ soft_kills_init_count = 0
                /\ soft_kills_init_count' = 1)
        /\ (obs'.op = "register" /\ soft_kills_init_count >= 1)
            => /\ UNCHANGED <<soft_kills_enabled, cb_lock, events, init_result,
                              job_table, cls, mem>>
               /\ Len(cb_list') = Len(cb_list) + 1
               /\ registered' = Append(registered, Head(cb_list'))
        /\ (obs'.op = "exit" /\ obs'.teardown) => soft_kills_init_count >= 1
      ]_vars

C21_Witness ==
    /\ obs.op = "register" /\ soft_kills_init_count = 2
    /\ Len(cb_list) = 2 /\ init_result = "failed" /\ events # {}

\* ---- C22
\* The context with system call c and record r is inside a configuration call.
InConfiguration(c) == c.kind = "SetInformationJobObject" /\ c.stage = "insys"

\* C22: a patch record does not outlive its call.  In the context that runs and in
\* every interrupted one of the running process, job_limit_flags_loc is NULL unless
\* the context is between the pre- and the post-syscall event of
\* NtSetInformationJobObject (a process that an ASSERT has aborted stopped inside
\* the pre-syscall event); the post-syscall event leaves it NULL even if its
\* dr_safe_write fails; and the post-syscall event of a configuration call that did
\* not ask for kill-on-close finds no record and writes nothing.
C22_RecordNeverOutlivesCall ==
    /\ (running /\ ~InConfiguration(call)) => cls.job_limit_flags_loc = NULL
    /\ \A i \in DOMAIN outer :
          (running /\ ~InConfiguration(outer[i].call))
              => outer[i].cls.job_limit_flags_loc = NULL
    /\ obs.op = "post" => cls.job_limit_flags_loc = NULL
    /\ (obs.op = "post" /\ obs.sys = "SetInformationJobObject" /\ ~PostOfRequest)
          => (obs.loc = NULL /\ ~obs.wrote)

\* the post-syscall event of a call that patched, whose write-back failed
C22_Witness ==
    /\ PostOfRequest /\ obs.loc # NULL /\ ~obs.wrote
    /\ cls.job_limit_flags_loc = NULL /\ call = Idle

\* ---- C23
GroupPath == obs.op \in {"TerminateJobObject", "Close", "exit"}

\* C23 as claimed: on the group paths (NtTerminateJobObject, NtClose of a tracked
\* handle, the sweep of soft_kills_exit) no callback is called with the pid of the
\* own process and the own process is not terminated by the handler.
C23_OwnPidNotHandledInGroups ==
    GroupPath =>
        /\ \A i \in DOMAIN obs.fanouts : obs.fanouts[i].pid # OwnPid
        /\ \A i \in DOMAIN obs.killed : obs.killed[i][1] # OwnPid
        /\ obs.returned

\* ---- C24
\* The last handler was the pre-syscall event of a configuration call that asked for
\* kill-on-close on a handle that was in the table already.
DuplicateAdd ==
    /\ obs.op = "SetInformationJobObject" /\ obs.loc # NULL
    /\ obs.target \in obs.table0

C25_NoDuplicateCloseNotification ==
    \A h \in JobHandles : notified[h] <= 1

\* ---- C26
\* C26 as claimed: with concurrent first registrations, no thread is at
\* dr_mutex_lock(cb_lock) of drx_register_soft_kills, or past it, before
\* soft_kills_init has created the lock, and no registration is lost: the process
\* does not die on the missing lock.
C26_RegistrationWaitsForSetup ==
    /\ \A t \in Threads :
          pc[t] \in {"reg_lock", "reg_next", "reg_head", "reg_unlock"}
              => cb_lock # "null"
    /\ ~running => cb_lock # "null"

OtherHandlers == {"TerminateProcess", "kill", "TerminateJobObject", "register"}

\* The configuration call whose pre-syscall event has run (in the next state) asked
\* for kill-on-close in an extended limit struct that could be read in full.
RequestsKillOnClose(o) ==
    /\ o.class = "JobObjectExtendedLimitInformation" /\ o.size >= SizeofInfo
    /\ o.readable /\ TEST(KillOnClose, o.flags0)

\* job_table changes only by the add of a configuration call that asks for
\* kill-on-close, the remove of NtClose and the release in soft_kills_exit.
TableChangesByThree ==
    job_table' # job_table =>
        \/ /\ obs'.op = "SetInformationJobObject" /\ RequestsKillOnClose(obs')
           /\ job_table' = job_table \cup {obs'.target}
        \/ /\ obs'.op = "Close" /\ job_table' = job_table \ {obs'.target}
        \/ /\ obs'.op = "exit" /\ obs'.teardown /\ job_table' = {}

\* The handlers that leave the table, the record and the buffers as they are.
FrameOfOthers ==
    /\ obs'.op \in OtherHandlers => UNCHANGED <<job_table, cls, mem>>
    /\ (obs'.op = "SetInformationJobObject" /\ ~RequestsKillOnClose(obs'))
          => UNCHANGED <<job_table, cls, mem>>

\* C28 as claimed: the table changes only by the three actions, and direct and group
\* termination, every post-syscall event, registration and a configuration call
\* that does not ask for kill-on-close leave the table, the record and the
\* caller's buffer unchanged.
C28_OnlyThreeActionsChangeState ==
    [][ /\ TableChangesByThree
        /\ FrameOfOthers
        /\ obs'.op = "post" => UNCHANGED <<job_table, cls, mem>>
      ]_vars

\* C28: the table changes only by the three actions; direct and group termination,
\* registration and a configuration call that does not ask for kill-on-close leave
\* the table, the record and the caller's buffer unchanged; a post-syscall event
\* leaves the table unchanged, and changes the record and the buffer only if the
\* record is set: it clears the record and writes to the recorded location only.
C28_TableChangesByThreeActions ==
    [][ /\ TableChangesByThree
        /\ FrameOfOthers
        /\ obs'.op = "post" =>
              /\ job_table' = job_table
              /\ IF cls.job_limit_flags_loc # NULL /\ obs'.sys = "SetInformationJobObject"
                 THEN /\ cls' = [cls EXCEPT !.job_limit_flags_loc = NULL]
                      /\ \A l \in Locs : l # cls.job_limit_flags_loc => mem'[l] = mem[l]
                 ELSE UNCHANGED <<cls, mem>>
      ]_vars

\* a configuration call without the flag on a handle that is tracked: still tracked
C28_Witness ==
    /\ obs.op = "SetInformationJobObject" /\ obs.readable /\ obs.size >= SizeofInfo
    /\ obs.class = "JobObjectExtendedLimitInformation"
    /\ ~TEST(KillOnClose, obs.flags0)
    /\ obs.target \in job_table /\ obs.target \in obs.table0

====
